---- MODULE Spec2Model ----
(***************************************************************************)
(* Model of the Obsidian filesystem adapter of jarvis (core/types.py):     *)
(* the path resolver, the line reader/writer, the heading locator and      *)
(* section scanner, and the five mutation operations.                      *)
(*                                                                         *)
(* A Python str is a sequence of one-character strings; a document at rest *)
(* is such a sequence with "\n" characters in it.  The alphabet has two    *)
(* whitespace characters, " " and "\n"; "\n" is the only line boundary.    *)
(* Optional arguments (None) and empty strings are both <<>>: the code     *)
(* tests them by truthiness only.                                          *)
(***************************************************************************)
EXTENDS Integers, Sequences, FiniteSets, TLC

VARIABLES fs, dirs, log, pc, loc, reqs

vars == <<fs, dirs, log, pc, loc, reqs>>

----------------------------------------------------------------------------
(* the records of the model; every record is built by one of these *)

\* the arguments of a call of the adapter
Cmd(op, path, title, body_md, position, heading, task_text, due, tags, task_state) ==
  [op |-> op, path |-> path, title |-> title, body_md |-> body_md,
   position |-> position, heading |-> heading, task_text |-> task_text,
   due |-> due, tags |-> tags, task_state |-> task_state]

\* a step a caller took: the call, how it ended ("ok" or the message of
\* the ValueError), the file it resolved, the vault as the step found it
Entry(step, proc, cmd, res, file, pre, predirs) ==
  [step |-> step, proc |-> proc, cmd |-> cmd, res |-> res, file |-> file,
   pre |-> pre, predirs |-> predirs]

\* what _safe_path gives: an error or the resolved location
Resolved(err, full) == [err |-> err, full |-> full]

\* what an action computes: an error or the lines to write
Computed(err, lines) == [err |-> err, lines |-> lines]

\* the locals of a call between its read and its write
Local(cmd, file, lines) == [cmd |-> cmd, file |-> file, lines |-> lines]

\* what _scan_to_section_end gives: the list and the position
Scanned(lines, at) == [lines |-> lines, at |-> at]

\* a path on disk: whether a file is there, and its text
Stat(exists, text) == [exists |-> exists, text |-> text]

\* a request the endpoint handled: the action and payload posted, and what
\* validation had against them (nothing for a command that was constructed)
Request(action, payload, errors) ==
  [action |-> action, payload |-> payload, errors |-> errors]

\* a process that is in no call holds no locals
NoLocal == Local(<<>>, <<>>, <<>>)

----------------------------------------------------------------------------
(* str helpers *)

NL == "\n"

IsSpace(c) == c \in {" ", NL}

RECURSIVE LStrip(_)
LStrip(s) == IF s # <<>> /\ IsSpace(Head(s)) THEN LStrip(Tail(s)) ELSE s

RECURSIVE RStrip(_)
RStrip(s) ==
  IF s # <<>> /\ IsSpace(s[Len(s)]) THEN RStrip(SubSeq(s, 1, Len(s) - 1)) ELSE s

Strip(s) == LStrip(RStrip(s))

RECURSIVE LStripHash(_)
LStripHash(s) == IF s # <<>> /\ Head(s) = "#" THEN LStripHash(Tail(s)) ELSE s

StartsWith(s, p) == Len(s) >= Len(p) /\ SubSeq(s, 1, Len(p)) = p

LowerChar(c) ==
  CASE c = "M" -> "m"
    [] c = "D" -> "d"
    [] c = "H" -> "h"
    [] OTHER -> c

Lower(s) == [i \in 1..Len(s) |-> LowerChar(s[i])]

RECURSIVE SplitAt(_, _, _, _)
SplitAt(s, sep, cur, acc) ==
  IF s = <<>> THEN <<acc, cur>>
  ELSE IF Head(s) = sep THEN SplitAt(Tail(s), sep, <<>>, Append(acc, cur))
  ELSE SplitAt(Tail(s), sep, Append(cur, Head(s)), acc)

\* str.splitlines(): the pieces between "\n"; a final "\n" opens no last line
SplitLines(s) ==
  LET r == SplitAt(s, NL, <<>>, <<>>)
  IN  IF r[2] = <<>> THEN r[1] ELSE Append(r[1], r[2])

\* "\n".join(lines)
RECURSIVE JoinLines(_)
JoinLines(lines) ==
  IF lines = <<>> THEN <<>>
  ELSE IF Len(lines) = 1 THEN lines[1]
  ELSE lines[1] \o <<NL>> \o JoinLines(Tail(lines))

----------------------------------------------------------------------------
(* pathlib *)

\* the configured root, self.vault, already resolved: /a/v
VaultParts == << <<"a">>, <<"v">> >>

\* Path(rel_path): absolute when it starts with "/"; empty and "." parts drop
PathParts(p) ==
  LET r   == SplitAt(p, "/", <<>>, <<>>)
      raw == Append(r[1], r[2])
  IN  SelectSeq(raw, LAMBDA seg : seg # <<>> /\ seg # <<".">>)

IsAbsolute(p) == p # <<>> /\ Head(p) = "/"

RECURSIVE RFind(_, _)
RFind(name, c) ==
  IF name = <<>> THEN 0
  ELSE IF name[Len(name)] = c THEN Len(name)
  ELSE RFind(SubSeq(name, 1, Len(name) - 1), c)

\* PurePath.suffix of the last part: from its last dot, unless that dot is
\* the first or the last character of the name
Suffix(parts) ==
  IF parts = <<>> THEN <<>>
  ELSE LET name == parts[Len(parts)]
           i    == RFind(name, ".")
       IN  IF 1 < i /\ i < Len(name) THEN SubSeq(name, i, Len(name)) ELSE <<>>

\* Path.resolve() of base / rel where nothing is a symlink: ".." pops a part
RECURSIVE Resolve(_, _)
Resolve(base, parts) ==
  IF parts = <<>> THEN base
  ELSE IF Head(parts) = <<".", ".">>
       THEN Resolve(IF base = <<>> THEN <<>> ELSE SubSeq(base, 1, Len(base) - 1),
                    Tail(parts))
  ELSE Resolve(Append(base, Head(parts)), Tail(parts))

\* str(path) of an absolute path
RECURSIVE PathStr(_)
PathStr(parts) ==
  IF parts = <<>> THEN <<>>
  ELSE <<"/">> \o Head(parts) \o PathStr(Tail(parts))

Parent(parts) == SubSeq(parts, 1, Len(parts) - 1)

\* the directories mkdir(parents=True) leaves in place for directory d
Ancestors(d) == { SubSeq(d, 1, n) : n \in 1..Len(d) }

----------------------------------------------------------------------------
(* ObsidianFSAdapter: helpers *)

ErrAbsolute    == "path must be vault-relative, not absolute"
ErrSuffix      == "path must end with .md"
ErrEscapes     == "path escapes vault root"
ErrExists      == "note already exists"
ErrNoHeading   == "heading is required when position=after_heading"
ErrNoTaskText  == "task_text is required for task.toggle in filesystem adapter"
ErrNoFile      == "file not found or empty"
ErrNoTask      == "matching task not found to toggle"
Ok             == "ok"

MdSuffix == <<".", "m", "d">>

\* the containment test of _safe_path: a prefix test on the two path strings
InsideVault(full) == StartsWith(PathStr(full), PathStr(VaultParts))

\* _safe_path with the containment test moved before the suffix test
SafePathContainmentFirst(rel_path) ==
  LET rel  == PathParts(rel_path)
      full == Resolve(VaultParts, rel)
  IN  IF IsAbsolute(rel_path) THEN Resolved(ErrAbsolute, <<>>)
      ELSE IF ~InsideVault(full) THEN Resolved(ErrEscapes, <<>>)
      ELSE IF Lower(Suffix(rel)) # MdSuffix THEN Resolved(ErrSuffix, <<>>)
      ELSE Resolved(Ok, full)

\* _safe_path with the suffix test before the absolute-path test
SafePathSuffixFirst(rel_path) ==
  LET rel  == PathParts(rel_path)
      full == Resolve(VaultParts, rel)
  IN  IF Lower(Suffix(rel)) # MdSuffix THEN Resolved(ErrSuffix, <<>>)
      ELSE IF IsAbsolute(rel_path) THEN Resolved(ErrAbsolute, <<>>)
      ELSE IF ~InsideVault(full) THEN Resolved(ErrEscapes, <<>>)
      ELSE Resolved(Ok, full)

\* _safe_path: the first check that fails, or the resolved location
SafePath(rel_path) ==
  LET rel  == PathParts(rel_path)
      full == Resolve(VaultParts, rel)
  IN  IF IsAbsolute(rel_path) THEN Resolved(ErrAbsolute, <<>>)
      ELSE IF Lower(Suffix(rel)) # MdSuffix THEN Resolved(ErrSuffix, <<>>)
      ELSE IF ~InsideVault(full) THEN Resolved(ErrEscapes, <<>>)
      ELSE Resolved(Ok, full)

\* _read_lines of a file in state f of the filesystem
ReadLines(f, file) ==
  IF ~f[file].exists THEN <<>> ELSE SplitLines(f[file].text)

\* the text _write_lines writes
WriteLines(lines) == RStrip(JoinLines(lines)) \o <<NL>>

----------------------------------------------------------------------------
(* ObsidianFSAdapter: helpers for headings *)

NormalizeHeading(h) == Lower(Strip(LStripHash(Strip(h))))

IsHeadingLine(line) == StartsWith(LStrip(line), <<"#">>)

\* _find_heading_index: the first matching heading line, 0 for None;
\* indices are 1-based here, 0-based in the code
FindHeadingIndex(lines, heading) ==
  LET target == NormalizeHeading(heading)
      hits == { i \in 1..Len(lines) :
                  IsHeadingLine(lines[i]) /\ NormalizeHeading(lines[i]) = target }
  IN  IF hits = {} THEN 0 ELSE CHOOSE i \in hits : \A k \in hits : i <= k

\* the level the scanner gives a line: len(line) - len(line.lstrip("#"))
Level(line) == Len(line) - Len(LStripHash(line))

\* the scan loop stopping at the next heading of any level
RECURSIVE ScanFromAnyLevel(_, _, _)
ScanFromAnyLevel(lines, j, base_level) ==
  IF j > Len(lines) THEN j
  ELSE IF IsHeadingLine(lines[j]) THEN j
  ELSE ScanFromAnyLevel(lines, j + 1, base_level)

RECURSIVE ScanFrom(_, _, _)
ScanFrom(lines, j, base_level) ==
  IF j > Len(lines) THEN j
  ELSE IF IsHeadingLine(lines[j]) /\ Level(lines[j]) <= base_level THEN j
  ELSE ScanFrom(lines, j + 1, base_level)

InsertAt(lines, j, x) ==
  SubSeq(lines, 1, j - 1) \o <<x>> \o SubSeq(lines, j, Len(lines))

\* _scan_to_section_end inserting its blank line at the end of the
\* document too
ScanToSectionEndBlankAtEnd(lines, heading_idx) ==
  LET j == ScanFrom(lines, heading_idx + 1, Level(lines[heading_idx]))
  IN  IF j = heading_idx + 1 \/ Strip(lines[j - 1]) # <<>>
      THEN Scanned(InsertAt(lines, j, <<>>), j + 1)
      ELSE Scanned(lines, j)

\* _scan_to_section_end: the list as the call leaves it, and the position
\* returned (1-based: the lines before it stay before the inserted block)
ScanToSectionEnd(lines, heading_idx) ==
  LET j == ScanFrom(lines, heading_idx + 1, Level(lines[heading_idx]))
  IN  IF j = heading_idx + 1 \/ (j <= Len(lines) /\ Strip(lines[j - 1]) # <<>>)
      THEN Scanned(InsertAt(lines, j, <<>>), j + 1)
      ELSE Scanned(lines, j)

----------------------------------------------------------------------------
(* ObsidianFSAdapter: what each action computes from the lines it read *)

Blank == <<>>

\* f"# {title}"
HeadingLine(title) == <<"#", " ">> \o title

\* note_create without the blank line under the title
NoteCreateLinesNoBlank(title, body_md) ==
  (IF title # <<>> /\ ~StartsWith(LStrip(body_md), <<"#">>)
   THEN <<HeadingLine(title)>> ELSE <<>>) \o SplitLines(body_md)

\* note_create: the lines it writes
NoteCreateLines(title, body_md) ==
  (IF title # <<>> /\ ~StartsWith(LStrip(body_md), <<"#">>)
   THEN <<HeadingLine(title), Blank>> ELSE <<>>) \o SplitLines(body_md)

\* note_update: the lines it writes
NoteUpdateLines(body_md) == SplitLines(body_md)

\* the top branch keeping the snippet alone
AppendTopSnippetOnly(lines, snippet) == snippet \o <<Blank>>

\* note_append, position == "top"
AppendTop(lines, snippet) ==
  IF lines # <<>> THEN snippet \o <<Blank>> \o lines ELSE snippet \o <<Blank>>

\* note_append, position == "after_heading", heading given
AppendAfterHeading(lines, snippet, heading) ==
  LET found == FindHeadingIndex(lines, heading)
      sep   == IF lines # <<>> /\ lines[Len(lines)] # Blank
               THEN Append(lines, Blank) ELSE lines
      made  == sep \o <<HeadingLine(heading), Blank>>
      cur   == IF found = 0 THEN made ELSE lines
      \* the code's "index of the heading line" is len(lines) - 1
      idx   == IF found = 0 THEN Len(made) ELSE found
      sc    == ScanToSectionEnd(cur, idx)
  IN  SubSeq(sc.lines, 1, sc.at - 1) \o snippet \o <<Blank>>
        \o SubSeq(sc.lines, sc.at, Len(sc.lines))

\* the bottom branch without its separator line
AppendBottomNoSep(lines, snippet) == lines \o snippet \o <<Blank>>

\* note_append, the else branch (bottom, the default)
AppendBottom(lines, snippet) ==
  (IF lines # <<>> /\ lines[Len(lines)] # Blank THEN Append(lines, Blank) ELSE lines)
    \o snippet \o <<Blank>>

\* note_append after the read: an error, or the lines to write
NoteAppendLines(lines, body_md, position, heading) ==
  LET snippet == SplitLines(body_md)
  IN  IF position = "top" THEN Computed(Ok, AppendTop(lines, snippet))
      ELSE IF position = "after_heading"
      THEN IF heading = <<>> THEN Computed(ErrNoHeading, <<>>)
           ELSE Computed(Ok, AppendAfterHeading(lines, snippet, heading))
      ELSE Computed(Ok, AppendBottom(lines, snippet))

RECURSIVE TagStr(_)
\* " ".join(f"#{t}" for t in tags)
TagStr(tags) ==
  IF tags = <<>> THEN <<>>
  ELSE IF Len(tags) = 1 THEN <<"#">> \o tags[1]
  ELSE <<"#">> \o tags[1] \o <<" ">> \o TagStr(Tail(tags))

OpenMark == <<"-", " ", "[", " ", "]", " ">>
DoneMark == <<"-", " ", "[", "x", "]", " ">>

\* the due-date mark of task_create, one character in the code
Clock == "@"

\* task_create: the task line
TaskLine(task_text, due, tags) ==
  OpenMark \o task_text
    \o (IF due # <<>> THEN <<" ", Clock, " ">> \o due ELSE <<>>)
    \o (IF tags # <<>> THEN <<" ">> \o TagStr(tags) ELSE <<>>)

\* task_create: the lines it writes
TaskCreateLines(lines, task_text, due, tags) ==
  (IF lines # <<>> /\ lines[Len(lines)] # Blank THEN Append(lines, Blank) ELSE lines)
    \o <<TaskLine(task_text, due, tags)>>

\* the toggle loop taking a line already in the state asked for as a match
ToggleIndexEitherState(lines, task_state, task_text) ==
  LET hits == { i \in 1..Len(lines) :
                  \/ Strip(lines[i]) = OpenMark \o task_text
                  \/ Strip(lines[i]) = DoneMark \o task_text }
  IN  IF hits = {} THEN 0 ELSE CHOOSE i \in hits : \A k \in hits : i <= k

\* task_toggle: the line the loop stops at, 0 when it runs to the end
ToggleIndex(lines, task_state, task_text) ==
  LET hits == { i \in 1..Len(lines) :
                  \/ Strip(lines[i]) = OpenMark \o task_text /\ task_state = "done"
                  \/ Strip(lines[i]) = DoneMark \o task_text /\ task_state = "open" }
  IN  IF hits = {} THEN 0 ELSE CHOOSE i \in hits : \A k \in hits : i <= k

\* task_toggle writing the bare marker in place of the line
TaskToggleLinesMarkOnly(lines, task_state, task_text) ==
  LET i == ToggleIndex(lines, task_state, task_text)
  IN  IF lines = <<>> THEN Computed(ErrNoFile, <<>>)
      ELSE IF i = 0 THEN Computed(ErrNoTask, <<>>)
      ELSE Computed(Ok, [lines EXCEPT ![i] = IF task_state = "done"
                                               THEN DoneMark ELSE OpenMark])

\* task_toggle after the read: an error, or the lines to write
TaskToggleLines(lines, task_state, task_text) ==
  LET i == ToggleIndex(lines, task_state, task_text)
  IN  IF lines = <<>> THEN Computed(ErrNoFile, <<>>)
      ELSE IF i = 0 THEN Computed(ErrNoTask, <<>>)
      ELSE Computed(Ok, [lines EXCEPT ![i] = IF task_state = "done"
                                               THEN DoneMark \o task_text
                                               ELSE OpenMark \o task_text])

----------------------------------------------------------------------------
(* state: the filesystem, the directories, the calls made so far *)

NoFile == Stat(FALSE, <<>>)

File(text) == Stat(TRUE, text)

\* full.parent.mkdir(parents=True, exist_ok=True)
Mkdir(file) == dirs \cup Ancestors(Parent(file))

\* a call returns or raises: res is "ok" or the message of the ValueError
Return(cmd, res, file, newfs, newdirs) ==
  /\ fs' = newfs
  /\ dirs' = newdirs
  /\ log' = Append(log, Entry("call", 0, cmd, res, file, fs, dirs))
  /\ UNCHANGED <<pc, loc>>

\* _write_lines, then return
WriteAndReturn(cmd, file, lines) ==
  Return(cmd, Ok, file, [fs EXCEPT ![file] = File(WriteLines(lines))], Mkdir(file))

----------------------------------------------------------------------------
(* the five actions, each a whole call *)

\* note_create without its exists() test
NoteCreateOverwrite(path, title, body_md) ==
  LET cmd == Cmd("note.create", path, title, body_md, "", <<>>, <<>>, <<>>, <<>>, "")
      sp  == SafePath(path)
  IN  IF sp.err # Ok THEN Return(cmd, sp.err, <<>>, fs, dirs)
      ELSE WriteAndReturn(cmd, sp.full, NoteCreateLines(title, body_md))

\* note_create testing exists() after its write
NoteCreateWriteThenTest(path, title, body_md) ==
  LET cmd == Cmd("note.create", path, title, body_md, "", <<>>, <<>>, <<>>, <<>>, "")
      sp  == SafePath(path)
  IN  IF sp.err # Ok THEN Return(cmd, sp.err, <<>>, fs, dirs)
      ELSE IF fs[sp.full].exists
      THEN Return(cmd, ErrExists, sp.full,
                  [fs EXCEPT ![sp.full] = File(WriteLines(NoteCreateLines(title, body_md)))],
                  Mkdir(sp.full))
      ELSE WriteAndReturn(cmd, sp.full, NoteCreateLines(title, body_md))

NoteCreate(path, title, body_md) ==
  LET cmd == Cmd("note.create", path, title, body_md, "", <<>>, <<>>, <<>>, <<>>, "")
      sp  == SafePath(path)
  IN  IF sp.err # Ok THEN Return(cmd, sp.err, <<>>, fs, dirs)
      ELSE IF fs[sp.full].exists THEN Return(cmd, ErrExists, sp.full, fs, Mkdir(sp.full))
      ELSE WriteAndReturn(cmd, sp.full, NoteCreateLines(title, body_md))

\* note_update keeping the lines that were in the file
NoteUpdateMerge(path, body_md) ==
  LET cmd == Cmd("note.update", path, <<>>, body_md, "", <<>>, <<>>, <<>>, <<>>, "")
      sp  == SafePath(path)
  IN  IF sp.err # Ok THEN Return(cmd, sp.err, <<>>, fs, dirs)
      ELSE WriteAndReturn(cmd, sp.full,
                          ReadLines(fs, sp.full) \o NoteUpdateLines(body_md))

NoteUpdate(path, body_md) ==
  LET cmd == Cmd("note.update", path, <<>>, body_md, "", <<>>, <<>>, <<>>, <<>>, "")
      sp  == SafePath(path)
  IN  IF sp.err # Ok THEN Return(cmd, sp.err, <<>>, fs, dirs)
      ELSE WriteAndReturn(cmd, sp.full, NoteUpdateLines(body_md))

NoteAppend(path, body_md, position, heading) ==
  LET cmd == Cmd("note.append", path, <<>>, body_md, position, heading, <<>>, <<>>, <<>>, "")
      sp  == SafePath(path)
      r   == NoteAppendLines(ReadLines(fs, sp.full), body_md, position, heading)
  IN  IF sp.err # Ok THEN Return(cmd, sp.err, <<>>, fs, dirs)
      ELSE IF r.err # Ok THEN Return(cmd, r.err, sp.full, fs, Mkdir(sp.full))
      ELSE WriteAndReturn(cmd, sp.full, r.lines)

TaskCreate(path, task_text, due, tags) ==
  LET cmd == Cmd("task.create", path, <<>>, <<>>, "", <<>>, task_text, due, tags, "")
      sp  == SafePath(path)
  IN  IF sp.err # Ok THEN Return(cmd, sp.err, <<>>, fs, dirs)
      ELSE WriteAndReturn(cmd, sp.full,
                          TaskCreateLines(ReadLines(fs, sp.full), task_text, due, tags))

TaskToggle(path, task_state, task_text) ==
  LET cmd == Cmd("task.toggle", path, <<>>, <<>>, "", <<>>, task_text, <<>>, <<>>, task_state)
      sp  == SafePath(path)
      r   == TaskToggleLines(ReadLines(fs, sp.full), task_state, task_text)
  IN  IF task_text = <<>> THEN Return(cmd, ErrNoTaskText, <<>>, fs, dirs)
      ELSE IF sp.err # Ok THEN Return(cmd, sp.err, <<>>, fs, dirs)
      ELSE IF r.err # Ok THEN Return(cmd, r.err, sp.full, fs, Mkdir(sp.full))
      ELSE WriteAndReturn(cmd, sp.full, r.lines)

----------------------------------------------------------------------------
(* the vault-relative paths the calls are made with *)

PathX       == <<"x", ".", "m", "d">>                                \* x.md
PathNested  == <<"d", "/", "y", ".", "m", "d">>                      \* d/y.md
PathBack    == <<"d", "/", ".", ".", "/", "x", ".", "m", "d">>       \* d/../x.md
PathSibling == <<".", ".", "/", "v", "2", "/", "x", ".", "m", "d">>  \* ../v2/x.md
PathUp      == <<".", ".", "/", "x", ".", "m", "d">>                 \* ../x.md
PathUpTxt   == <<".", ".", "/", "x", ".", "t", "x", "t">>            \* ../x.txt
PathTxt     == <<"x", ".", "t", "x", "t">>                           \* x.txt
PathAbs     == <<"/", "a", "/", "v", "/", "x", ".", "m", "d">>       \* /a/v/x.md
PathUpper   == <<"x", ".", "M", "D">>                                \* x.MD

RelPaths ==
  {PathX, PathNested, PathBack, PathSibling, PathUp, PathUpTxt, PathTxt, PathAbs,
   PathUpper}

\* every location a path of RelPaths can name
Locs == { Resolve(VaultParts, PathParts(p)) : p \in RelPaths }

\* the document most calls are made on: /a/v/x.md
MainFile == Resolve(VaultParts, PathParts(PathX))

Procs == {1, 2}


\* the vault after __init__: the root directory exists; doc is what is at
\* MainFile before the first call
InitWith(doc) ==
  /\ fs = [l \in Locs |-> IF l = MainFile THEN doc ELSE NoFile]
  /\ dirs = Ancestors(VaultParts)
  /\ log = <<>>
  /\ pc = [p \in Procs |-> "idle"]
  /\ loc = [p \in Procs |-> NoLocal]
  /\ reqs = <<>>

----------------------------------------------------------------------------
(* Spec: every action on every path, from an empty vault *)

PathOps == 2

Title1 == <<"t">>
Body1  == <<"b">>
Head1  == <<"h">>
Task1  == <<"k">>

Init == InitWith(NoFile)

Next ==
  /\ Len(log) < PathOps
  /\ \E path \in RelPaths :
       \/ NoteCreate(path, Title1, Body1)
       \/ NoteUpdate(path, Body1)
       \/ \E position \in {"bottom", "after_heading"} :
            NoteAppend(path, Body1, position, <<>>)
       \/ TaskCreate(path, Task1, <<>>, <<>>)
       \/ \E task_text \in {Task1, <<>>} : TaskToggle(path, "done", task_text)
  /\ UNCHANGED reqs

Spec == Init /\ [][Next]_vars

\* what the i-th call left behind
PostFs(i) == IF i < Len(log) THEN log[i + 1].pre ELSE fs

IsDescendant(full) ==
  Len(full) > Len(VaultParts) /\ SubSeq(full, 1, Len(VaultParts)) = VaultParts

HasDotDot(path) ==
  \E k \in 1..Len(PathParts(path)) : PathParts(path)[k] = <<".", ".">>

\* C1: the resolver fails or returns a true descendant of the root, so no
\* call ever leaves a file outside the root.
C1_NoFileOutsideRoot ==
  /\ \A i \in 1..Len(log) : log[i].file # <<>> => IsDescendant(log[i].file)
  /\ \A l \in Locs : fs[l].exists => IsDescendant(l)

\* a call that gets as far as resolving its path
ReachesResolver(c) == c.op = "task.toggle" => c.task_text # <<>>

\* C2 as stated: every path with a ".." segment, and every path that
\* resolves outside the root, makes the call fail with the escapes-root
\* error (of a task.toggle: one that is given its task_text).
C2_DotDotAlwaysEscapes ==
  \A i \in 1..Len(log) :
    LET c == log[i].cmd
    IN  (ReachesResolver(c)
          /\ (HasDotDot(c.path)
                \/ (~IsAbsolute(c.path)
                      /\ ~IsDescendant(Resolve(VaultParts, PathParts(c.path))))))
        => log[i].res = ErrEscapes

\* C2 amended: a call fails with the escapes-root error exactly when its
\* path is relative, has the .md suffix and resolves to a location whose
\* path string does not begin with the root's (task.toggle: and a task_text
\* is given); a ".." that resolves back inside the root is accepted.
C2_EscapesAfterSuffix ==
  \A i \in 1..Len(log) :
    LET c    == log[i].cmd
        full == Resolve(VaultParts, PathParts(c.path))
    IN  /\ log[i].res = ErrEscapes
           <=> /\ ~IsAbsolute(c.path)
               /\ Lower(Suffix(PathParts(c.path))) = MdSuffix
               /\ ~StartsWith(PathStr(full), PathStr(VaultParts))
               /\ ReachesResolver(c)
        /\ (HasDotDot(c.path) /\ log[i].res = Ok) => log[i].file = full

C2_Witness ==
  /\ \E i \in 1..Len(log) : log[i].cmd.path = PathUp /\ log[i].res = ErrEscapes
  /\ \E i \in 1..Len(log) : log[i].cmd.path = PathBack /\ log[i].res = Ok

\* C10: note.create succeeds only when nothing is at the target; once a
\* document is at a location every later note.create on it fails with the
\* already-exists error; no call removes a document.
C10_CreateOnlyWhenAbsent ==
  \A i \in 1..Len(log) :
    /\ (log[i].cmd.op = "note.create" /\ log[i].res = Ok)
         => ~log[i].pre[log[i].file].exists
    /\ (log[i].cmd.op = "note.create" /\ log[i].file # <<>>
          /\ log[i].pre[log[i].file].exists)
         => (log[i].res = ErrExists /\ PostFs(i) = log[i].pre)
    /\ \A l \in Locs : log[i].pre[l].exists => PostFs(i)[l].exists

C10_Witness ==
  \E i, j \in 1..Len(log) :
    /\ i < j
    /\ log[i].cmd.op \in {"note.update", "note.append", "task.create"}
    /\ log[i].res = Ok
    /\ log[j].cmd.op = "note.create"
    /\ log[j].file = log[i].file
    /\ log[j].res = ErrExists

----------------------------------------------------------------------------
(* SpecRace: two callers of the adapter on one document.  A call is two     *)
(* steps, the read of the whole file and later the write of the whole file; *)
(* the adapter takes no lock and keeps no version between them.             *)

\* what a call computes from the lines it read
NewLines(cmd, lines) ==
  IF cmd.op = "note.append"
  THEN NoteAppendLines(lines, cmd.body_md, cmd.position, cmd.heading)
  ELSE Computed(Ok, TaskCreateLines(lines, cmd.task_text, cmd.due, cmd.tags))

\* the lines of the file as they are when the call writes
SnapshotFresh(p) == ReadLines(fs, loc[p].file)

\* the local variable lines of a call that has read and not yet written
Snapshot(p) == loc[p].lines

Event(step, p, cmd, res, file) == Entry(step, p, cmd, res, file, fs, dirs)

\* _safe_path and _read_lines of a call
ReadStep(p, cmd) ==
  LET sp == SafePath(cmd.path)
  IN  /\ pc[p] = "idle"
      /\ fs' = fs
      /\ reqs' = reqs
      /\ IF sp.err # Ok
         THEN /\ pc' = [pc EXCEPT ![p] = "done"]
              /\ loc' = loc
              /\ dirs' = dirs
              /\ log' = Append(log, Event("raise", p, cmd, sp.err, <<>>))
         ELSE /\ pc' = [pc EXCEPT ![p] = "read"]
              /\ loc' = [loc EXCEPT
                          ![p] = Local(cmd, sp.full, ReadLines(fs, sp.full))]
              /\ dirs' = Mkdir(sp.full)
              /\ log' = Append(log, Event("read", p, cmd, Ok, sp.full))

\* note_append up to its read
BeginNoteAppend(p, path, body_md, position, heading) ==
  ReadStep(p, Cmd("note.append", path, <<>>, body_md, position, heading,
                  <<>>, <<>>, <<>>, ""))

\* task_create up to its read
BeginTaskCreate(p, path, task_text, due, tags) ==
  ReadStep(p, Cmd("task.create", path, <<>>, <<>>, "", <<>>, task_text, due, tags, ""))

\* the rest of the call: the new lines from the lines read, then _write_lines
WriteStep(p) ==
  LET l == loc[p]
      r == NewLines(l.cmd, Snapshot(p))
  IN  /\ pc[p] = "read"
      /\ pc' = [pc EXCEPT ![p] = "done"]
      /\ loc' = [loc EXCEPT ![p] = NoLocal]
      /\ dirs' = dirs
      /\ reqs' = reqs
      /\ IF r.err # Ok
         THEN /\ fs' = fs
              /\ log' = Append(log, Event("raise", p, l.cmd, r.err, l.file))
         ELSE /\ fs' = [fs EXCEPT ![l.file] = File(WriteLines(r.lines))]
              /\ log' = Append(log, Event("write", p, l.cmd, Ok, l.file))

DocA == <<"a", NL>>

BodyB == <<"b">>
BodyC == <<"c">>

RaceDocs == {NoFile, File(DocA)}

InitRace == \E doc \in RaceDocs : InitWith(doc)

NextRace ==
  \E p \in Procs :
    \/ \E body_md \in {BodyB, BodyC}, position \in {"bottom", "top"} :
         BeginNoteAppend(p, PathX, body_md, position, <<>>)
    \/ BeginTaskCreate(p, PathX, Task1, <<>>, <<>>)
    \/ WriteStep(p)

SpecRace == InitRace /\ [][NextRace]_vars

\* the two reads came before the two writes
ReadReadWriteWrite ==
  /\ Len(log) = 4
  /\ log[1].step = "read" /\ log[2].step = "read"
  /\ log[3].step = "write" /\ log[4].step = "write"

\* the one line a call of SpecRace adds
AddedLine(cmd) ==
  IF cmd.op = "note.append" THEN cmd.body_md
  ELSE TaskLine(cmd.task_text, cmd.due, cmd.tags)

HasLine(lines, x) == \E k \in 1..Len(lines) : lines[k] = x

\* C3: when two calls on one document run read, read, write, write, both
\* return normally and the document is what the later writer alone makes of
\* the document both read: the earlier writer's line is not in it.
C3_LaterWriteClobbers ==
  ReadReadWriteWrite =>
    LET first == log[3].cmd
        later == log[4].cmd
        final == ReadLines(fs, MainFile)
    IN  /\ log[3].res = Ok /\ log[4].res = Ok
        /\ PostFs(3)[MainFile].exists
        /\ HasLine(ReadLines(PostFs(3), MainFile), AddedLine(first))
        /\ HasLine(final, AddedLine(later))
        /\ AddedLine(first) # AddedLine(later) => ~HasLine(final, AddedLine(first))
        /\ fs[MainFile] =
             File(WriteLines(NewLines(later, ReadLines(log[1].pre, MainFile)).lines))

C3_Witness ==
  /\ ReadReadWriteWrite
  /\ log[3].cmd.op = "note.append" /\ log[4].cmd.op = "task.create"
  /\ log[3].cmd.position = "bottom"
  /\ ~HasLine(ReadLines(fs, MainFile), BodyB)
  /\ HasLine(ReadLines(PostFs(3), MainFile), BodyB)

----------------------------------------------------------------------------
(* SpecAppend: note.append at the bottom and at the top of one document    *)

AppendOps == 2

AppendDocs ==
  { NoFile,
    File(<<>>),                                   \* a file of no bytes
    File(<<NL>>),                                 \* one empty line
    File(<<"a">>),                                \* no final newline
    File(<<"a", NL>>),
    File(<<"a", " ", NL>>),                       \* last line ends in a blank
    File(<<"a", NL, NL>>),                        \* ends in one empty line
    File(<<"a", NL, NL, NL>>),                    \* ends in two empty lines
    File(<<"a", NL, " ", NL>>) }                  \* ends in a line of blanks

AppendBodies ==
  { <<"b">>,
    <<"c">>,
    <<"b", " ">>,                                 \* trailing blank
    <<"b", NL, NL>>,                              \* ends with an empty line
    <<" ">>,                                      \* only whitespace
    <<NL, "b">>,                                  \* starts with an empty line
    <<"b", NL, NL, "c">> }

InitAppend == \E doc \in AppendDocs : InitWith(doc)

NextAppend ==
  /\ Len(log) < AppendOps
  /\ \E body_md \in AppendBodies, position \in {"bottom", "top"} :
       NoteAppend(PathX, body_md, position, <<>>)
  /\ UNCHANGED reqs

SpecAppend == InitAppend /\ [][NextAppend]_vars

IsBlankLine(line) == Strip(line) = <<>>

\* block is in lines at k .. k + Len(block) - 1
BlockAt(lines, k, block) ==
  /\ k >= 1
  /\ k + Len(block) - 1 <= Len(lines)
  /\ SubSeq(lines, k, k + Len(block) - 1) = block

\* exactly one blank line stands right before position k
OneBlankBefore(lines, k) ==
  /\ k >= 2
  /\ IsBlankLine(lines[k - 1])
  /\ k >= 3 => ~IsBlankLine(lines[k - 2])

\* calls i and i+1 are two successful bottom appends on one document
TwoBottomAppends(i) ==
  /\ i + 1 <= Len(log)
  /\ \A n \in {i, i + 1} :
       /\ log[n].cmd.op = "note.append"
       /\ log[n].cmd.position = "bottom"
       /\ log[n].res = Ok
  /\ log[i].file = log[i + 1].file

\* C4 as stated: after bottom appends of A then B, all lines of A and of B
\* are in the document, A's before B's, each block right after exactly one
\* blank line.
C4_BothBlocksSeparated ==
  \A i \in 1..Len(log) :
    TwoBottomAppends(i) =>
      LET a     == SplitLines(log[i].cmd.body_md)
          b     == SplitLines(log[i + 1].cmd.body_md)
          final == ReadLines(PostFs(i + 1), log[i].file)
      IN  \E ka, kb \in 1..Len(final) :
            /\ BlockAt(final, ka, a) /\ BlockAt(final, kb, b)
            /\ ka + Len(a) <= kb
            /\ OneBlankBefore(final, ka) /\ OneBlankBefore(final, kb)

\* the lines of a body as a write leaves them when they end the file
Stripped(body_md) == SplitLines(RStrip(body_md))

\* C4 amended: for bodies A, B that are not all whitespace the document is
\* the prior lines, one empty line unless the prior lines are none or end
\* in an empty line, A's lines, one empty line, B's lines, where the
\* trailing whitespace of each body is dropped; so B's block follows
\* exactly one blank line, and A's does when the prior document ends in a
\* line that is not blank.
C4_BottomTwiceKeepsBoth ==
  \A i \in 1..Len(log) :
    (TwoBottomAppends(i) /\ Stripped(log[i].cmd.body_md) # <<>>
       /\ Stripped(log[i + 1].cmd.body_md) # <<>>) =>
      LET a     == Stripped(log[i].cmd.body_md)
          b     == Stripped(log[i + 1].cmd.body_md)
          prior == ReadLines(log[i].pre, log[i].file)
          sep   == IF prior # <<>> /\ prior[Len(prior)] # Blank
                   THEN <<Blank>> ELSE <<>>
          final == ReadLines(PostFs(i + 1), log[i].file)
          ka    == Len(prior) + Len(sep) + 1
          kb    == ka + Len(a) + 1
      IN  /\ final = prior \o sep \o a \o <<Blank>> \o b
          /\ BlockAt(final, ka, a) /\ BlockAt(final, kb, b)
          /\ OneBlankBefore(final, kb)
          /\ (prior # <<>> /\ ~IsBlankLine(prior[Len(prior)]))
               => OneBlankBefore(final, ka)
          /\ (prior # <<>> /\ IsBlankLine(prior[Len(prior)]))
               => (OneBlankBefore(final, ka)
                     <=> /\ prior[Len(prior)] = Blank
                         /\ Len(prior) >= 2 => ~IsBlankLine(prior[Len(prior) - 1]))
          /\ prior = <<>> => ka = 1

C4_Witness ==
  /\ TwoBottomAppends(1)
  /\ log[1].cmd.body_md = <<"b", " ">>
  /\ log[2].cmd.body_md = <<"c">>
  /\ log[1].pre[MainFile] = File(<<"a", NL, " ", NL>>)
  /\ ReadLines(fs, MainFile) = << <<"a">>, <<" ">>, <<>>, <<"b">>, <<>>, <<"c">> >>

----------------------------------------------------------------------------
(* SpecHeading: note.append after a heading                                *)

HeadingOps == 2

\* a document at rest whose lines are the given ones
Text(lines) == File(JoinLines(lines) \o <<NL>>)

LineH   == <<"#", " ", "h">>                 \* # h
LineHH  == <<"#", "#", " ", "h">>            \* ## h
LineHUp == <<"#", " ", "H">>                 \* # H
LineHIn == <<" ", "#", " ", "h">>            \* an indented # h
LineS   == <<"#", "#", " ", "s">>            \* ## s
LineS3  == <<"#", "#", "#", " ", "s">>       \* ### s
LineSIn == <<" ", " ", "#", "#", " ", "s">>  \* an indented ## s
LineG   == <<"#", " ", "g">>                 \* # g
LineGIn == <<" ", "#", " ", "g">>            \* an indented # g
LineX   == <<"x">>
LineY   == <<"y">>

HeadingDocs ==
  { NoFile, File(<<>>), File(<<NL>>),
    Text(<<LineH>>),
    Text(<<LineH, LineX>>),
    Text(<<LineHUp, LineX>>),
    Text(<<LineH, LineX, LineS, LineY>>),
    Text(<<LineH, LineX, LineG, LineY>>),
    Text(<<LineHH, LineX, LineS3, LineY, LineG>>),
    Text(<<LineH, Blank, LineX, Blank, LineG>>),
    Text(<<LineHIn, LineX, LineG>>),
    Text(<<LineH, LineX, LineGIn, LineY>>),
    Text(<<LineH, LineX, LineSIn, LineY, LineG>>),
    Text(<<LineH, LineG, <<"y", " ">>, Blank>>),
    Text(<<LineX, LineG>>),
    Text(<<LineX, Blank>>) }

HeadingArgs == { <<"h">>, <<"#", "#", " ", "h">>, <<"z">> }

HeadingBodies == { <<"b">>, <<"c", NL, "d", " ">> }

InitHeading == \E doc \in HeadingDocs : InitWith(doc)

NextHeading ==
  /\ Len(log) < HeadingOps
  /\ \E body_md \in HeadingBodies, heading \in HeadingArgs :
       NoteAppend(PathX, body_md, "after_heading", heading)
  /\ UNCHANGED reqs

SpecHeading == InitHeading /\ [][NextHeading]_vars

\* call i is a successful append after a heading
AfterHeadingCall(i) ==
  /\ log[i].cmd.op = "note.append"
  /\ log[i].cmd.position = "after_heading"
  /\ log[i].res = Ok
  /\ Stripped(log[i].cmd.body_md) # <<>>

NonBlank(lines) == SelectSeq(lines, LAMBDA l : ~IsBlankLine(l))

\* lines as they read back once written
Norm(lines) == SplitLines(RStrip(JoinLines(lines)))

\* the headings that follow line idx
HeadingsAfter(lines, idx) ==
  { m \in (idx + 1)..Len(lines) : IsHeadingLine(lines[m]) }

\* where the section of the heading at idx ends: the first later heading
\* whose count of leading # is no more than that of line idx
SectionEnd(lines, idx) ==
  LET stops == { m \in HeadingsAfter(lines, idx) :
                   Level(lines[m]) <= Level(lines[idx]) }
  IN  IF stops = {} THEN Len(lines) + 1
      ELSE CHOOSE m \in stops : \A n \in stops : m <= n

\* no heading line of the document is indented
NoIndentedHeading(lines) ==
  \A m \in 1..Len(lines) : IsHeadingLine(lines[m]) => Head(lines[m]) = "#"

\* C5 as stated, on the documents whose heading lines are not indented:
\* the body's lines, with or without the whitespace that ends the body,
\* land after the heading line of H and before every heading that follows
\* H, deeper ones too.
C5_BodyBeforeEveryHeading ==
  \A i \in 1..Len(log) :
    LET prior == ReadLines(log[i].pre, log[i].file)
        final == ReadLines(PostFs(i), log[i].file)
        idx   == FindHeadingIndex(prior, log[i].cmd.heading)
        bodies == {Stripped(log[i].cmd.body_md), SplitLines(log[i].cmd.body_md)}
    IN  (AfterHeadingCall(i) /\ idx # 0 /\ NoIndentedHeading(prior)) =>
          \E k \in (idx + 1)..Len(final) :
            /\ \E body \in bodies : BlockAt(final, k, body)
            /\ Cardinality(HeadingsAfter(final, k))
                 = Cardinality(HeadingsAfter(prior, idx))

\* C5 amended: the body lands after the heading line of H and right before
\* the first later heading whose level, counted as the leading # of the
\* untrimmed line, is no more than that of H's line, one blank line
\* between them, or at the end of the document when there is none; later
\* headings of a greater level stay before the body.  The prior lines that
\* are not blank all remain, in order, the body's lines between them;
\* whitespace that ends the file is dropped.
C5_BodyBeforeNextPeerHeading ==
  \A i \in 1..Len(log) :
    LET prior == ReadLines(log[i].pre, log[i].file)
        final == ReadLines(PostFs(i), log[i].file)
        idx   == FindHeadingIndex(prior, log[i].cmd.heading)
        e     == SectionEnd(prior, idx)
        atEnd == e > Len(prior)
        block == IF atEnd THEN Stripped(log[i].cmd.body_md)
                 ELSE SplitLines(log[i].cmd.body_md)
        n     == Len(block)
    IN  (AfterHeadingCall(i) /\ idx # 0) =>
          /\ \E k \in (idx + 1)..Len(final) :
               /\ BlockAt(final, k, block)
               /\ \A m \in (idx + 1)..(k - 1) :
                    IsHeadingLine(final[m]) => Level(final[m]) > Level(prior[idx])
               /\ IF atEnd THEN k + n - 1 = Len(final)
                  ELSE /\ k + n + 1 <= Len(final)
                       /\ IsBlankLine(final[k + n])
                       /\ RStrip(final[k + n + 1]) = RStrip(prior[e])
          /\ NonBlank(final) =
               Norm(NonBlank(SubSeq(prior, 1, e - 1))
                      \o NonBlank(SplitLines(log[i].cmd.body_md))
                      \o NonBlank(SubSeq(prior, e, Len(prior))))

C5_Witness ==
  /\ Len(log) = 1
  /\ AfterHeadingCall(1)
  /\ log[1].pre[MainFile] = Text(<<LineHH, LineX, LineS3, LineY, LineG>>)
  /\ log[1].cmd.heading = <<"h">>
  /\ ReadLines(fs, MainFile) =
       <<LineHH, LineX, LineS3, LineY, Blank, <<"b">>, Blank, LineG>>

\* C6: with no heading matching H the call succeeds, the prior lines stay
\* as a prefix, and the result ends with the heading line # H, one blank
\* line, then the body lines.
C6_HeadingCreatedAtEnd ==
  \A i \in 1..Len(log) :
    LET prior == ReadLines(log[i].pre, log[i].file)
        final == ReadLines(PostFs(i), log[i].file)
        tail  == <<HeadingLine(log[i].cmd.heading), Blank>>
                   \o Stripped(log[i].cmd.body_md)
    IN  (AfterHeadingCall(i) /\ FindHeadingIndex(prior, log[i].cmd.heading) = 0) =>
          /\ Len(final) >= Len(prior) + Len(tail)
          /\ SubSeq(final, 1, Len(prior)) = prior
          /\ SubSeq(final, Len(final) - Len(tail) + 1, Len(final)) = tail

----------------------------------------------------------------------------
(* SpecTask: task.create and task.toggle on one document                   *)

TaskOps == 3

TaskK     == <<"k">>
TaskKTail == <<"k", " ">>                    \* a text that ends in a blank
Due1      == <<"d">>
Tags1     == << <<"t">> >>

OpenK == OpenMark \o TaskK                   \* - [ ] k
DoneK == DoneMark \o TaskK                   \* - [x] k

TaskDocs ==
  { NoFile, File(<<>>), File(<<NL>>),
    Text(<<LineX>>),
    Text(<<OpenK>>),
    Text(<<DoneK, LineX>>),
    Text(<<<<" ", " ">> \o OpenK, LineX>>),          \* an indented open task
    Text(<<OpenK \o <<" ", Clock, " ", "d">>>>),     \* the task with a due date
    Text(<<OpenK, OpenK>>) }

TaskTexts == {TaskK, TaskKTail}

\* due and tags of a task.create: neither, a due date, a tag
TaskMeta == { <<Blank, <<>>>>, <<Due1, <<>>>>, <<Blank, Tags1>> }

InitTask == \E doc \in TaskDocs : InitWith(doc)

NextTask ==
  /\ Len(log) < TaskOps
  /\ \/ \E task_text \in TaskTexts, meta \in TaskMeta :
          TaskCreate(PathX, task_text, meta[1], meta[2])
     \/ \E task_state \in {"done", "open"}, task_text \in TaskTexts :
          TaskToggle(PathX, task_state, task_text)
     \/ TaskToggle(PathX, "done", <<>>)
  /\ UNCHANGED reqs

SpecTask == InitTask /\ [][NextTask]_vars

OpenForm(task_text) == OpenMark \o task_text
DoneForm(task_text) == DoneMark \o task_text

\* lines has a line whose trimmed content is form
HasTask(lines, form) == \E k \in 1..Len(lines) : Strip(lines[k]) = form

\* call i is a task.create and call i+1 a task.toggle to done of its text
CreateThenDone(i) ==
  /\ i + 1 <= Len(log)
  /\ log[i].cmd.op = "task.create" /\ log[i].res = Ok
  /\ log[i + 1].cmd.op = "task.toggle"
  /\ log[i + 1].cmd.task_state = "done"
  /\ log[i + 1].cmd.task_text = log[i].cmd.task_text

\* call i+2 is a task.toggle to open of the same text
ThenOpen(i) ==
  /\ i + 2 <= Len(log)
  /\ log[i + 2].cmd.op = "task.toggle"
  /\ log[i + 2].cmd.task_state = "open"
  /\ log[i + 2].cmd.task_text = log[i].cmd.task_text

\* the toggle to done turned the last line, the created one, from its open
\* form to its done form and nothing else; the toggle to open put the
\* document back
ToggledAndBack(i) ==
  LET c       == log[i].cmd
      created == ReadLines(PostFs(i), log[i].file)
      toggled == ReadLines(PostFs(i + 1), log[i].file)
      n       == Len(created)
  IN  /\ log[i + 1].res = Ok
      /\ created[n] = RStrip(TaskLine(c.task_text, c.due, c.tags))
      /\ toggled = [created EXCEPT
                      ![n] = DoneMark \o SubSeq(created[n], Len(OpenMark) + 1,
                                                Len(created[n]))]
      /\ ThenOpen(i) => (log[i + 2].res = Ok /\ PostFs(i + 2) = PostFs(i))

\* C7 as stated, for the texts that do not end in whitespace: for every
\* document, due date and tags, task.create then task.toggle to done
\* succeeds and changes only the created line, and a following toggle to
\* open restores the document.
C7_CreateToggleRoundTrip ==
  \A i \in 1..Len(log) :
    (CreateThenDone(i) /\ RStrip(log[i].cmd.task_text) = log[i].cmd.task_text)
      => ToggledAndBack(i)

\* C7 amended: the same, for a task created without due date and tags,
\* with a text that does not end in whitespace, in a document that had no
\* line whose trimmed content is the open or the done form of that text.
C7_PlainTaskRoundTrip ==
  \A i \in 1..Len(log) :
    LET c     == log[i].cmd
        prior == ReadLines(log[i].pre, log[i].file)
    IN  (CreateThenDone(i)
           /\ c.due = <<>> /\ c.tags = <<>>
           /\ RStrip(c.task_text) = c.task_text
           /\ ~HasTask(prior, OpenForm(c.task_text))
           /\ ~HasTask(prior, DoneForm(c.task_text)))
        => ToggledAndBack(i)

C7_Witness ==
  /\ Len(log) = 3
  /\ CreateThenDone(1) /\ ThenOpen(1)
  /\ log[1].pre[MainFile] = Text(<<LineX>>)
  /\ log[2].res = Ok /\ log[3].res = Ok
  /\ ReadLines(PostFs(2), MainFile) = <<LineX, Blank, DoneK>>
  /\ ReadLines(fs, MainFile) = <<LineX, Blank, OpenK>>

\* call i is a task.toggle that got as far as looking for its line, in a
\* document with no line for its text in the state opposite to the one asked
ToggleWithoutMatch(i) ==
  LET c     == log[i].cmd
      prior == ReadLines(log[i].pre, log[i].file)
  IN  /\ c.op = "task.toggle"
      /\ c.task_text # <<>>
      /\ log[i].file # <<>>
      /\ ~HasTask(prior, IF c.task_state = "done" THEN OpenForm(c.task_text)
                         ELSE DoneForm(c.task_text))

\* C8 as stated: every such call fails with "matching task not found" and
\* leaves the document as it was.
C8_NoMatchIsNotFound ==
  \A i \in 1..Len(log) :
    ToggleWithoutMatch(i) => (log[i].res = ErrNoTask /\ PostFs(i) = log[i].pre)

\* C8 amended: every such call fails and leaves the document as it was (a
\* missing one stays missing); the failure is "matching task not found"
\* when the document has a line, and "file not found or empty" when it is
\* missing or has none.  A text that is absent and a text already in the
\* state asked for fail alike.
C8_NoMatchFails ==
  \A i \in 1..Len(log) :
    ToggleWithoutMatch(i) =>
      /\ PostFs(i) = log[i].pre
      /\ log[i].res = IF ReadLines(log[i].pre, log[i].file) = <<>>
                      THEN ErrNoFile ELSE ErrNoTask

C8_Witness ==
  /\ Len(log) = 3
  /\ log[1].pre[MainFile] = NoFile
  /\ ToggleWithoutMatch(1) /\ log[1].res = ErrNoFile
  /\ log[2].cmd.op = "task.create" /\ log[2].cmd.task_text = TaskK
  /\ ToggleWithoutMatch(3) /\ log[3].res = ErrNoTask
  /\ log[3].cmd.task_state = "open" /\ log[3].cmd.task_text = TaskK

----------------------------------------------------------------------------
(* SpecCreate: note.create and the file it leaves                          *)

CreateOps == 2

CreateBodies ==
  { <<"b">>,
    <<"b", NL, "c">>,
    <<"b", " ">>,                            \* trailing blank
    <<"b", NL, NL>>,                         \* ends with an empty line
    <<" ">>,                                 \* only whitespace
    <<NL>>,
    <<"#", " ", "h", NL, "b">>,              \* starts with a heading
    <<" ", "#", " ", "h">>,                  \* an indented heading first
    <<NL, "#", " ", "h", NL>>,               \* an empty line, then a heading
    <<"b", NL, "#", " ", "h">> }             \* a heading, not at the start

CreateTitles == { <<"t">>, <<"t", " ">>, <<>> }

InitCreate == InitWith(NoFile)

NextCreate ==
  /\ Len(log) < CreateOps
  /\ \E path \in {PathX, PathNested}, title \in CreateTitles,
        body_md \in CreateBodies :
       NoteCreate(path, title, body_md)
  /\ UNCHANGED reqs

SpecCreate == InitCreate /\ [][NextCreate]_vars

\* call i is a successful note.create with a title and a body
CreateCall(i) ==
  /\ log[i].cmd.op = "note.create"
  /\ log[i].res = Ok
  /\ log[i].cmd.title # <<>>
  /\ log[i].cmd.body_md # <<>>

\* C9 as stated: the file reads back as # title, a blank line and exactly
\* the lines of body, or as the lines of body when body starts with #.
C9_CreateReadsBackBody ==
  \A i \in 1..Len(log) :
    LET c == log[i].cmd
    IN  CreateCall(i) =>
          ReadLines(PostFs(i), log[i].file) =
            (IF Head(c.body_md) # "#" THEN <<HeadingLine(c.title), Blank>> ELSE <<>>)
              \o SplitLines(c.body_md)

\* C9 amended: the file reads back as # title, a blank line and the lines
\* of body without the whitespace that ends body; as the lines of body
\* without that whitespace when the first character of body that is not
\* whitespace is #; and as the title line alone, its trailing whitespace
\* dropped, when body is all whitespace.
C9_CreateReadsBackStripped ==
  \A i \in 1..Len(log) :
    LET c     == log[i].cmd
        final == ReadLines(PostFs(i), log[i].file)
    IN  CreateCall(i) =>
          final = IF Stripped(c.body_md) = <<>> THEN <<RStrip(HeadingLine(c.title))>>
                  ELSE IF Head(LStrip(c.body_md)) = "#" THEN Stripped(c.body_md)
                  ELSE <<HeadingLine(c.title), Blank>> \o Stripped(c.body_md)

C9_Witness ==
  /\ Len(log) = 2
  /\ CreateCall(1) /\ CreateCall(2)
  /\ log[1].cmd.body_md = <<"b", NL, NL>> /\ log[1].cmd.title = <<"t">>
  /\ ReadLines(fs, log[1].file) = << <<"#", " ", "t">>, Blank, <<"b">> >>
  /\ log[2].cmd.body_md = <<NL, "#", " ", "h", NL>>
  /\ ReadLines(fs, log[2].file) = << Blank, <<"#", " ", "h">> >>

----------------------------------------------------------------------------
(* SpecUpdate: note.update and the file it leaves                          *)

UpdateOps == 2

UpdateDocs ==
  { NoFile, File(<<>>), File(<<NL>>),
    Text(<<LineX>>),
    Text(<<LineX, Blank, LineY>>),
    Text(<<<<"b">>, LineX>>) }

UpdateBodies ==
  { <<"b">>,
    <<"b", NL, "c">>,
    <<"b", " ">>,                            \* trailing blank
    <<"b", NL, NL>>,                         \* ends with an empty line
    <<NL, "b">>,                             \* starts with an empty line
    <<" ">>,                                 \* only whitespace
    <<>> }                                   \* body_md or ""

InitUpdate == \E doc \in UpdateDocs : InitWith(doc)

NextUpdate ==
  /\ Len(log) < UpdateOps
  /\ \E path \in {PathX, PathNested}, body_md \in UpdateBodies :
       NoteUpdate(path, body_md)
  /\ UNCHANGED reqs

SpecUpdate == InitUpdate /\ [][NextUpdate]_vars

\* call i is a successful note.update
UpdateCall(i) == log[i].cmd.op = "note.update" /\ log[i].res = Ok

\* call i+1 repeats call i
SameCallAgain(i) == i + 1 <= Len(log) /\ log[i + 1].cmd = log[i].cmd

\* C11 as stated, for the bodies that are not blank: whatever was at the
\* path, after note.update the document reads back as the lines of body,
\* and the same update once more leaves the same document.
C11_UpdateReadsBackBody ==
  \A i \in 1..Len(log) :
    (UpdateCall(i) /\ Strip(log[i].cmd.body_md) # <<>>) =>
      /\ ReadLines(PostFs(i), log[i].file) = SplitLines(log[i].cmd.body_md)
      /\ SameCallAgain(i) => PostFs(i + 1) = PostFs(i)

\* C11 amended: whatever was at the path, after note.update the file is a
\* function of body alone; it reads back as the lines of body without the
\* whitespace that ends body, and as one empty line when body is empty or
\* all whitespace; every other file is as it was; the same update once more
\* leaves the same vault.
C11_UpdateReplaces ==
  \A i \in 1..Len(log) :
    UpdateCall(i) =>
      LET body  == log[i].cmd.body_md
          final == ReadLines(PostFs(i), log[i].file)
      IN  /\ PostFs(i)[log[i].file] = File(RStrip(body) \o <<NL>>)
          /\ final = IF Stripped(body) = <<>> THEN <<Blank>> ELSE Stripped(body)
          /\ \A l \in Locs : l # log[i].file => PostFs(i)[l] = log[i].pre[l]
          /\ SameCallAgain(i) => PostFs(i + 1) = PostFs(i)

C11_Witness ==
  /\ Len(log) = 2
  /\ UpdateCall(1) /\ SameCallAgain(1) /\ UpdateCall(2)
  /\ log[1].pre[MainFile] = Text(<<LineX, Blank, LineY>>)
  /\ log[1].cmd.path = PathX
  /\ log[1].cmd.body_md = <<"b", NL, "c">>
  /\ ReadLines(fs, MainFile) = << <<"b">>, <<"c">> >>

----------------------------------------------------------------------------
(* SpecValidate: the endpoint /obsidian/command.  Its parameter is an       *)
(* ObsidianCommand, so a request reaches the body of the handler only as a *)
(* validated command; the handler routes it to the adapter.                *)

Actions == {"note.create", "note.append", "note.update", "task.create", "task.toggle"}

Positions == {"top", "bottom", "after_heading"}

TaskStates == {"open", "done"}

ErrMissing     == "missing"
ErrWrongSuffix == "suffix"
ErrUnsupported == "unsupported"
ErrBadTag      == "tag"

\* position and task_state are enumeration names, absent as ""; the other
\* fields are strings or lists, absent as <<>>
IsAbsent(payload, field) ==
  IF field \in {"position", "task_state"} THEN payload[field] = ""
  ELSE payload[field] = <<>>

\* position when the payload has none
PositionOf(payload) == IF payload.position = "" THEN "bottom" ELSE payload.position

\* the fields an action requires
RequiredFields(action, payload) ==
  {"path"} \cup
  CASE action = "note.create" -> {"title", "body_md"}
    [] action = "note.append" ->
         {"body_md"} \cup (IF PositionOf(payload) = "after_heading"
                           THEN {"heading"} ELSE {})
    [] action = "note.update" -> {"body_md"}
    [] action = "task.create" -> {"task_text"}
    [] action = "task.toggle" -> {"task_state"}
    [] OTHER -> {}

\* a path that ends with the Markdown suffix, in any case
EndsWithMd(path) ==
  /\ Len(path) >= Len(MdSuffix)
  /\ Lower(SubSeq(path, Len(path) - Len(MdSuffix) + 1, Len(path))) = MdSuffix

\* tags with a duplicate or a blank entry
BadTags(tags) ==
  \/ \E i \in 1..Len(tags) : Strip(tags[i]) = <<>>
  \/ \E i, j \in 1..Len(tags) : i # j /\ Strip(tags[i]) = Strip(tags[j])

\* everything validation has against a payload, as <<field, reason>> pairs;
\* it collects them all and has no side effect
Validate(action, payload) ==
  { <<f, ErrMissing>> : f \in { g \in RequiredFields(action, payload) :
                                  IsAbsent(payload, g) } }
  \cup (IF action \notin Actions THEN {<<"action", ErrUnsupported>>} ELSE {})
  \cup (IF payload.position \notin Positions \cup {""}
        THEN {<<"position", ErrUnsupported>>} ELSE {})
  \cup (IF payload.task_state \notin TaskStates \cup {""}
        THEN {<<"task_state", ErrUnsupported>>} ELSE {})
  \cup (IF payload.path # <<>> /\ ~EndsWithMd(payload.path)
        THEN {<<"path", ErrWrongSuffix>>} ELSE {})
  \cup (IF BadTags(payload.tags) THEN {<<"tags", ErrBadTag>>} ELSE {})

\* the payload of a validated command: its tags trimmed
Validated(payload) ==
  [payload EXCEPT !.tags = [i \in 1..Len(payload.tags) |-> Strip(payload.tags[i])]]

\* the body of the handler: route the command to the adapter
Route(action, p) ==
  IF action = "note.create" THEN NoteCreate(p.path, p.title, p.body_md)
  ELSE IF action = "note.append"
  THEN NoteAppend(p.path, p.body_md, PositionOf(p), p.heading)
  ELSE IF action = "note.update" THEN NoteUpdate(p.path, p.body_md)
  ELSE IF action = "task.create" THEN TaskCreate(p.path, p.task_text, p.due, p.tags)
  ELSE IF action = "task.toggle"
  THEN TaskToggle(p.path, IF p.task_state = "" THEN "done" ELSE p.task_state,
                  p.task_text)
  ELSE UNCHANGED <<fs, dirs, log, pc, loc>>

\* the handler with a parameter that is not validated
ObsidianCommandUnvalidated(action, payload) ==
  /\ reqs' = Append(reqs, Request(action, payload, {}))
  /\ Route(action, payload)

\* POST /obsidian/command
ObsidianCommand(action, payload) ==
  LET errors == Validate(action, payload)
  IN  IF errors # {}
      THEN /\ reqs' = Append(reqs, Request(action, payload, errors))
           /\ UNCHANGED <<fs, dirs, log, pc, loc>>
      ELSE /\ reqs' = Append(reqs, Request(action, payload, {}))
           /\ Route(action, Validated(payload))

ValidateOps == 1

\* each field there or not, whatever the action
GridPayloads ==
  { Cmd("", path, title, body_md, position, heading, task_text, <<>>, <<>>, task_state) :
      path \in {<<>>, PathX}, title \in {<<>>, Title1}, body_md \in {<<>>, Body1},
      position \in {"", "after_heading"}, heading \in {<<>>, Head1},
      task_text \in {<<>>, Task1}, task_state \in {"", "open"} }

\* payloads with a field that is there and not valid
OddPayloads ==
  { Cmd("", PathTxt, <<>>, Body1, "", <<>>, Task1, <<>>, <<>>, ""),
    Cmd("", PathUpper, Title1, Body1, "top", <<>>, <<>>, <<>>, <<>>, "done"),
    Cmd("", PathX, <<>>, <<>>, "middle", <<>>, <<>>, <<>>, <<>>, "later"),
    Cmd("", PathX, <<>>, <<>>, "", <<>>, Task1, Due1, <<Tags1[1], <<" ">>>>, ""),
    Cmd("", PathX, <<>>, <<>>, "", <<>>, <<>>, <<>>, <<<<"t", " ">>, <<"t">>>>, "open"),
    Cmd("", PathX, <<>>, <<>>, "", <<>>, Task1, <<>>, <<<<"t", " ">>>>, "") }

InitValidate == InitWith(NoFile)

NextValidate ==
  /\ Len(reqs) < ValidateOps
  /\ \E action \in Actions, payload \in GridPayloads \cup OddPayloads :
       ObsidianCommand(action, payload)

SpecValidate == InitValidate /\ [][NextValidate]_vars

\* the required fields a payload lacks
LackedBy(action, payload) ==
  LET lacks(f) == IsAbsent(payload, f)
  IN  { f \in {"path"} : lacks(f) }
      \cup { f \in {"title", "body_md"} : action = "note.create" /\ lacks(f) }
      \cup { f \in {"body_md"} : action \in {"note.append", "note.update"} /\ lacks(f) }
      \cup { f \in {"heading"} : /\ action = "note.append"
                                 /\ payload.position = "after_heading"
                                 /\ lacks(f) }
      \cup { f \in {"task_text"} : action = "task.create" /\ lacks(f) }
      \cup { f \in {"task_state"} : action = "task.toggle" /\ lacks(f) }

\* the fields a failure names as missing
NamedMissing(errors) == { e[1] : e \in { x \in errors : x[2] = ErrMissing } }

\* the requests that became commands, in order
Constructed == SelectSeq(reqs, LAMBDA r : r.errors = {})

\* C12: a request whose payload lacks required fields is rejected, the
\* failure names as missing exactly the fields it lacks, and the adapter is
\* not called for it: the calls of the adapter are those of the requests
\* that lack nothing and pass validation, each with the task_state of its
\* payload, and a vault that saw only rejected requests is untouched.
C12_MissingFieldsRejected ==
  /\ \A i \in 1..Len(reqs) :
       LET r == reqs[i]
       IN  /\ LackedBy(r.action, r.payload) # {} => r.errors # {}
           /\ r.errors # {} => NamedMissing(r.errors) = LackedBy(r.action, r.payload)
  /\ Len(log) = Len(Constructed)
  /\ \A j \in 1..Len(log) :
       j <= Len(Constructed) =>
         /\ log[j].cmd.op = Constructed[j].action
         /\ log[j].cmd.op = "task.toggle"
              => log[j].cmd.task_state = Constructed[j].payload.task_state
  /\ log = <<>> => (fs = [l \in Locs |-> NoFile] /\ dirs = Ancestors(VaultParts))

C12_Witness ==
  /\ Len(reqs) = 1
  /\ reqs[1].action = "note.create"
  /\ reqs[1].payload.path = PathX
  /\ reqs[1].payload.task_state = "open"
  /\ reqs[1].errors = {<<"title", ErrMissing>>, <<"body_md", ErrMissing>>}
  /\ log = <<>>

----------------------------------------------------------------------------
(* SpecFailure: every action, on paths the resolver takes and paths it     *)
(* rejects, on a document that is missing, empty or has a line             *)

FailureOps == 2

FailurePaths == {PathX, PathNested, PathUp, PathTxt, PathAbs}

FailureDocs == {NoFile, File(<<>>), Text(<<LineX>>)}

InitFailure == \E doc \in FailureDocs : InitWith(doc)

NextFailure ==
  /\ Len(log) < FailureOps
  /\ \E path \in FailurePaths :
       \/ NoteCreate(path, Title1, Body1)
       \/ NoteUpdate(path, Body1)
       \/ \E position \in {"top", "bottom", "after_heading"} :
            NoteAppend(path, Body1, position, <<>>)
       \/ TaskCreate(path, Task1, <<>>, <<>>)
       \/ \E task_text \in {Task1, <<>>} : TaskToggle(path, "done", task_text)
  /\ UNCHANGED reqs

SpecFailure == InitFailure /\ [][NextFailure]_vars

\* C13: a call that ends in a failure leaves every file of the vault as it
\* was, in existence and in content; a call that succeeds changes at most
\* the one file it resolved.
C13_FailureWritesNothing ==
  \A i \in 1..Len(log) :
    /\ log[i].res # Ok => PostFs(i) = log[i].pre
    /\ log[i].res = Ok =>
         \A l \in Locs : l # log[i].file => PostFs(i)[l] = log[i].pre[l]

C13_Witness ==
  /\ Len(log) = 2
  /\ log[1].pre[MainFile] = Text(<<LineX>>)
  /\ log[1].cmd.op = "note.append" /\ log[1].cmd.path = PathNested
  /\ log[1].res = ErrNoHeading
  /\ log[2].cmd.op = "task.toggle" /\ log[2].res = ErrNoTask
  /\ fs = log[1].pre

----------------------------------------------------------------------------
(* the section scanner, as note.append after a heading applies it          *)

\* the level of a heading line counted on its trimmed content
TrimmedLevel(line) == Level(LStrip(line))

\* where the section of the heading at idx ends when levels are counted on
\* trimmed content: the first later heading of no greater level
TrimmedSectionEnd(lines, idx) ==
  LET stops == { m \in HeadingsAfter(lines, idx) :
                   TrimmedLevel(lines[m]) <= TrimmedLevel(lines[idx]) }
  IN  IF stops = {} THEN Len(lines) + 1
      ELSE CHOOSE m \in stops : \A n \in stops : m <= n

\* C14: the scan from the heading at idx stops at the first later heading
\* whose level, counted on the trimmed line, is no more than that of line
\* idx, or at the end: the lines before that place stay before the appended
\* body and the lines from it on come after the body.
C14_ScanStopsAtTrimmedPeer ==
  \A i \in 1..Len(log) :
    LET prior == ReadLines(log[i].pre, log[i].file)
        final == ReadLines(PostFs(i), log[i].file)
        idx   == FindHeadingIndex(prior, log[i].cmd.heading)
        e     == TrimmedSectionEnd(prior, idx)
    IN  (AfterHeadingCall(i) /\ idx # 0) =>
          NonBlank(final) =
            Norm(NonBlank(SubSeq(prior, 1, e - 1))
                   \o NonBlank(SplitLines(log[i].cmd.body_md))
                   \o NonBlank(SubSeq(prior, e, Len(prior))))

\* call i is a successful append after a heading the document has
FoundHeadingCall(i) ==
  /\ AfterHeadingCall(i)
  /\ FindHeadingIndex(ReadLines(log[i].pre, log[i].file), log[i].cmd.heading) # 0

\* C15 as stated: the appended body has exactly one blank line between it
\* and the line before it, and exactly one between it and the heading after
\* it, wherever the section ends.
C15_BlankLineBothSides ==
  \A i \in 1..Len(log) :
    LET final  == ReadLines(PostFs(i), log[i].file)
        bodies == {Stripped(log[i].cmd.body_md), SplitLines(log[i].cmd.body_md)}
    IN  FoundHeadingCall(i) =>
          \E body \in bodies, k \in 1..Len(final) :
            /\ BlockAt(final, k, body)
            /\ OneBlankBefore(final, k)
            /\ k + Len(body) <= Len(final) =>
                 /\ IsBlankLine(final[k + Len(body)])
                 /\ k + Len(body) + 1 <= Len(final)
                 /\ IsHeadingLine(final[k + Len(body) + 1])

\* C15 amended: the scanner inserts a blank line when the section is empty
\* (it ends right after the heading line) or when it ends at a following
\* heading and the line before that heading is not blank; it inserts none
\* when the section ends at the end of the document after at least one
\* line.  So before a following heading the body has a blank line before
\* it, exactly one when the section's last line was not blank, and one
\* empty line between its lines and that heading; at the end of the
\* document the body comes right after the document's last line, with a
\* blank line between them only under a heading that was the last line.
C15_BlankLineBeforeHeadingOnly ==
  \A i \in 1..Len(log) :
    LET prior == ReadLines(log[i].pre, log[i].file)
        final == ReadLines(PostFs(i), log[i].file)
        idx   == FindHeadingIndex(prior, log[i].cmd.heading)
        e     == SectionEnd(prior, idx)
        body  == SplitLines(log[i].cmd.body_md)
        n     == Len(body)
    IN  FoundHeadingCall(i) =>
          IF e <= Len(prior)
          THEN LET k == IF e = idx + 1 \/ ~IsBlankLine(prior[e - 1])
                        THEN e + 1 ELSE e
               IN  /\ SubSeq(final, 1, e - 1) = SubSeq(prior, 1, e - 1)
                   /\ IsBlankLine(final[k - 1])
                   /\ ~IsBlankLine(prior[e - 1]) => OneBlankBefore(final, k)
                   /\ BlockAt(final, k, body)
                   /\ final[k + n] = Blank
                   /\ RStrip(final[k + n + 1]) = RStrip(prior[e])
                   /\ Len(final) <= k + n + 1 + Len(prior) - e
          ELSE IF e = idx + 1
          THEN final = prior \o <<Blank>> \o Stripped(log[i].cmd.body_md)
          ELSE final = prior \o Stripped(log[i].cmd.body_md)

C15_Witness ==
  /\ Len(log) = 2
  /\ FoundHeadingCall(1) /\ FoundHeadingCall(2)
  /\ log[1].pre[MainFile] = Text(<<LineH, LineX>>)
  /\ ReadLines(PostFs(1), MainFile) = <<LineH, LineX, <<"b">>>>
  /\ log[2].cmd.heading = <<"#", "#", " ", "h">>
  /\ ReadLines(fs, MainFile) = <<LineH, LineX, <<"b">>, <<"c">>, <<"d">>>>

----------------------------------------------------------------------------
(* task.toggle and the one line it may change                              *)

\* the first line of lines that is equal to form, 0 when there is none
FirstEqual(lines, form) ==
  LET hits == { m \in 1..Len(lines) : lines[m] = form }
  IN  IF hits = {} THEN 0 ELSE CHOOSE m \in hits : \A n \in hits : m <= n

\* C16: task.toggle without task_text fails before it resolves or reads a
\* file; with a task_text it succeeds only when a line equals, character
\* for character, the form opposite to the state asked for, and then the
\* first such line gets the other marker and every other line, later
\* duplicates, indented lines and lines with more text among them, stays as
\* it was.
C16_ToggleExactLineOnly ==
  \A i \in 1..Len(log) :
    LET c     == log[i].cmd
        prior == ReadLines(log[i].pre, log[i].file)
        final == ReadLines(PostFs(i), log[i].file)
        from  == IF c.task_state = "done" THEN OpenForm(c.task_text)
                 ELSE DoneForm(c.task_text)
        to    == IF c.task_state = "done" THEN DoneForm(c.task_text)
                 ELSE OpenForm(c.task_text)
        m     == FirstEqual(prior, from)
    IN  c.op = "task.toggle" =>
          /\ c.task_text = <<>> =>
               (log[i].res = ErrNoTaskText /\ log[i].file = <<>>
                  /\ PostFs(i) = log[i].pre)
          /\ (c.task_text # <<>> /\ log[i].res = Ok) =>
               (m # 0 /\ final = [prior EXCEPT ![m] = to])

----------------------------------------------------------------------------
(* SpecResolve: the path resolver under every action, on paths that fail   *)
(* one check or several                                                    *)

ResolveOps == 2

PathAbsTxt == <<"/", "x", ".", "t", "x", "t">>                       \* /x.txt
PathAbsOut == <<"/", "x", ".", "m", "d">>                            \* /x.md

ResolvePaths == RelPaths \cup {PathAbsTxt, PathAbsOut}

InitResolve == InitWith(NoFile)

NextResolve ==
  /\ Len(log) < ResolveOps
  /\ \E path \in ResolvePaths :
       \/ NoteCreate(path, Title1, Body1)
       \/ NoteUpdate(path, Body1)
       \/ \E position \in {"bottom", "after_heading"} :
            NoteAppend(path, Body1, position, <<>>)
       \/ TaskCreate(path, Task1, <<>>, <<>>)
       \/ TaskToggle(path, "done", Task1)
  /\ UNCHANGED reqs

SpecResolve == InitResolve /\ [][NextResolve]_vars

\* the directories the i-th call left behind
PostDirs(i) == IF i < Len(log) THEN log[i + 1].predirs ELSE dirs

ResolverErrors == {ErrAbsolute, ErrSuffix, ErrEscapes}

\* C17: the resolver reports the first check that fails, in the order
\* absolute, suffix, containment (the prefix test of the path strings); a
\* call with a rejected path changes no file and no directory; a call with
\* an accepted path has the parents of its target as directories, and when
\* it then fails the target is, as every file, as it was.
C17_ChecksInOrderThenMkdir ==
  \A i \in 1..Len(log) :
    LET path == log[i].cmd.path
        rel  == PathParts(path)
        full == Resolve(VaultParts, rel)
        abs  == IsAbsolute(path)
        suf  == Lower(Suffix(rel)) # MdSuffix
        out  == ~StartsWith(PathStr(full), PathStr(VaultParts))
    IN  /\ log[i].res = ErrAbsolute <=> abs
        /\ log[i].res = ErrSuffix <=> (~abs /\ suf)
        /\ log[i].res = ErrEscapes <=> (~abs /\ ~suf /\ out)
        /\ log[i].res \in ResolverErrors =>
             /\ log[i].file = <<>>
             /\ PostFs(i) = log[i].pre
             /\ PostDirs(i) = log[i].predirs
        /\ log[i].res \notin ResolverErrors =>
             /\ log[i].file = full
             /\ PostDirs(i) = log[i].predirs \cup Ancestors(Parent(full))
             /\ log[i].res # Ok => PostFs(i) = log[i].pre

C17_Witness ==
  /\ Len(log) = 2
  /\ log[1].cmd.path = PathAbsTxt /\ log[1].res = ErrAbsolute
  /\ log[2].cmd.path = PathNested /\ log[2].res = ErrNoFile
  /\ Parent(log[2].file) \in dirs
  /\ Parent(log[2].file) \notin log[2].predirs
  /\ ~fs[log[2].file].exists

----------------------------------------------------------------------------
(* the heading note.append creates, and the next append under it           *)

HeadingCount(lines) == Cardinality({ m \in 1..Len(lines) : IsHeadingLine(lines[m]) })

\* call i created its heading and call i+1 appends under the same heading
CreatedThenAgain(i) ==
  /\ i + 1 <= Len(log)
  /\ AfterHeadingCall(i) /\ AfterHeadingCall(i + 1)
  /\ log[i + 1].cmd.heading = log[i].cmd.heading
  /\ FindHeadingIndex(ReadLines(log[i].pre, log[i].file), log[i].cmd.heading) = 0

\* C18: after an append has created the heading line for H, the locator
\* finds that line for H, and a second append under H adds no heading line
\* and puts its body after the first body.
C18_CreatedHeadingIsFound ==
  \A i \in 1..Len(log) :
    CreatedThenAgain(i) =>
      LET prior == ReadLines(log[i].pre, log[i].file)
          mid   == ReadLines(PostFs(i), log[i].file)
          final == ReadLines(PostFs(i + 1), log[i].file)
          found == FindHeadingIndex(mid, log[i].cmd.heading)
          first == Stripped(log[i].cmd.body_md)
          again == Stripped(log[i + 1].cmd.body_md)
      IN  /\ found > Len(prior)
          /\ mid[found] = HeadingLine(log[i].cmd.heading)
          /\ HeadingCount(final) = HeadingCount(mid)
          /\ \E k \in (found + 1)..Len(final) :
               /\ BlockAt(final, k, first)
               /\ BlockAt(final, k + Len(first), again)

----------------------------------------------------------------------------
(* SpecAdditive: the operations that add to a document                     *)

AdditiveOps == 2

AdditiveDocs ==
  { NoFile, File(<<>>),
    File(<<"a", " ", NL>>),                       \* last line ends in a blank
    File(<<"a", NL, NL, "a", NL, " ", NL>>),      \* a line twice, blank lines
    Text(<<LineH, LineX, LineG, <<"y", " ">>>>),
    Text(<<LineH, <<"x", " ">>, LineS, LineY>>),
    Text(<<LineX, OpenK>>) }

AdditiveBodies == { <<"b">>, <<" ">>, <<"c", NL, "d", " ">> }

InitAdditive == \E doc \in AdditiveDocs : InitWith(doc)

NextAdditive ==
  /\ Len(log) < AdditiveOps
  /\ \/ \E body_md \in AdditiveBodies, position \in {"top", "bottom"} :
          NoteAppend(PathX, body_md, position, <<>>)
     \/ \E body_md \in AdditiveBodies, heading \in {Head1, <<"z">>} :
          NoteAppend(PathX, body_md, "after_heading", heading)
     \/ \E meta \in TaskMeta : TaskCreate(PathX, TaskK, meta[1], meta[2])
  /\ UNCHANGED reqs

SpecAdditive == InitAdditive /\ [][NextAdditive]_vars

\* call i is a note.append or a task.create that succeeded
AdditiveCall(i) ==
  /\ log[i].cmd.op \in {"note.append", "task.create"}
  /\ log[i].res = Ok

\* what call i adds is not blank
AddsText(i) ==
  IF log[i].cmd.op = "note.append" THEN Strip(log[i].cmd.body_md) # <<>>
  ELSE Strip(log[i].cmd.task_text) # <<>>

\* the lines of p are lines of f, in the same order
RECURSIVE IsSubseq(_, _)
IsSubseq(p, f) ==
  IF p = <<>> THEN TRUE
  ELSE IF f = <<>> THEN FALSE
  ELSE IF Head(p) = Head(f) THEN IsSubseq(Tail(p), Tail(f))
  ELSE IsSubseq(p, Tail(f))

\* the same, where the line that ends f may have lost the whitespace that
\* ended it
RECURSIVE IsSubseqToEnd(_, _)
IsSubseqToEnd(p, f) ==
  IF p = <<>> THEN TRUE
  ELSE IF f = <<>> THEN FALSE
  ELSE IF Head(p) = Head(f) \/ (Len(f) = 1 /\ Len(p) = 1 /\ RStrip(Head(p)) = Head(f))
       THEN IsSubseqToEnd(Tail(p), Tail(f))
  ELSE IsSubseqToEnd(p, Tail(f))

\* C19 as stated: after a note.append or a task.create the prior lines that
\* are not blank are in the document, unchanged and in their order, and
\* there are more lines that are not blank than before when the text added
\* is not blank.
C19_PriorLinesUnchanged ==
  \A i \in 1..Len(log) :
    LET prior == NonBlank(ReadLines(log[i].pre, log[i].file))
        final == NonBlank(ReadLines(PostFs(i), log[i].file))
    IN  AdditiveCall(i) =>
          /\ IsSubseq(prior, final)
          /\ AddsText(i) => Len(final) > Len(prior)

\* C19 amended: the same, except that the last line of the new document,
\* when it is a prior line, is that line without the whitespace that ended
\* it; every other prior line that is not blank is unchanged.
C19_PriorLinesKeptToEnd ==
  \A i \in 1..Len(log) :
    LET prior == NonBlank(ReadLines(log[i].pre, log[i].file))
        final == NonBlank(ReadLines(PostFs(i), log[i].file))
    IN  AdditiveCall(i) =>
          /\ IsSubseqToEnd(prior, final)
          /\ IsSubseq(SubSeq(prior, 1, Len(prior) - 1), final)
          /\ AddsText(i) => Len(final) > Len(prior)

C19_Witness ==
  /\ Len(log) = 2
  /\ AdditiveCall(1) /\ AdditiveCall(2)
  /\ log[1].pre[MainFile] = File(<<"a", " ", NL>>)
  /\ log[1].cmd.position = "top" /\ log[1].cmd.body_md = <<"b">>
  /\ log[2].cmd.op = "task.create"
  /\ ReadLines(PostFs(1), MainFile) = << <<"b">>, Blank, <<"a">> >>
  /\ ReadLines(fs, MainFile) = << <<"b">>, Blank, <<"a">>, Blank, OpenK >>

----------------------------------------------------------------------------
(* the inline fallback adapter of app.py, used when adapters.obsidian_fs    *)
(* cannot be imported; its base directory is the configured root           *)

ErrNoNote == "note not found"

\* the due-date mark of the fallback's task_create, one character in the code
Calendar == "%"

\* sub in s
Contains(s, sub) ==
  \E k \in 1..(Len(s) - Len(sub) + 1) : SubSeq(s, k, k + Len(sub) - 1) = sub

\* s[s.find(c) + 1:], and find gives -1 when c is not in s
AfterFirst(s, c) ==
  LET hits == { k \in 1..Len(s) : s[k] = c }
  IN  IF hits = {} THEN s
      ELSE SubSeq(s, (CHOOSE k \in hits : \A n \in hits : k <= n) + 1, Len(s))

\* _note_path: (self.base / path).resolve(); an absolute path replaces base
FallbackNotePath(path) ==
  Resolve(IF IsAbsolute(path) THEN <<>> ELSE VaultParts, PathParts(path))

\* read_text of a file that the action has made sure exists
FallbackReadText(file) == IF fs[file].exists THEN fs[file].text ELSE <<>>

\* write_text, then return
FallbackWrite(cmd, file, text) ==
  Return(cmd, Ok, file, [fs EXCEPT ![file] = File(text)], Mkdir(file))

FallbackNoteCreate(path, title, body_md) ==
  LET cmd == Cmd("note.create", path, title, body_md, "", <<>>, <<>>, <<>>, <<>>, "")
      p   == FallbackNotePath(path)
      top == IF title # <<>> /\ ~StartsWith(LStrip(body_md), <<"#">>)
             THEN HeadingLine(title) \o <<NL, NL>> ELSE <<>>
  IN  FallbackWrite(cmd, p, top \o body_md)

FallbackNoteUpdate(path, body_md) ==
  LET cmd == Cmd("note.update", path, <<>>, body_md, "", <<>>, <<>>, <<>>, <<>>, "")
  IN  FallbackWrite(cmd, FallbackNotePath(path), body_md)

\* the heading search of the fallback: 0 for None
FallbackHeadingIndex(lines, heading) ==
  LET target_key == Lower(Strip(heading))
      hits == { i \in 1..Len(lines) :
                  Lower(Strip(LStripHash(lines[i]))) = target_key }
  IN  IF hits = {} THEN 0 ELSE CHOOSE i \in hits : \A k \in hits : i <= k

FallbackNoteAppend(path, body_md, position, heading) ==
  LET cmd    == Cmd("note.append", path, <<>>, body_md, position, heading,
                    <<>>, <<>>, <<>>, "")
      p      == FallbackNotePath(path)
      lines  == SplitLines(FallbackReadText(p))
      idx    == IF position = "after_heading" /\ heading # <<>>
                THEN FallbackHeadingIndex(lines, heading) ELSE 0
      \* 1-based: the block goes in before line at
      at     == IF idx + 1 <= Len(lines) /\ Strip(lines[idx + 1]) = <<>>
                THEN idx + 2 ELSE idx + 1
      under  == SubSeq(lines, 1, at - 1) \o <<body_md>> \o SubSeq(lines, at, Len(lines))
      bottom == (IF lines # <<>> /\ Strip(lines[Len(lines)]) # <<>>
                 THEN Append(lines, Blank) ELSE lines) \o <<body_md>>
  IN  FallbackWrite(cmd, p, JoinLines(IF idx # 0 THEN under ELSE bottom) \o <<NL>>)

FallbackTaskCreate(path, task_text, due, tags) ==
  LET cmd     == Cmd("task.create", path, <<>>, <<>>, "", <<>>, task_text, due, tags, "")
      p       == FallbackNotePath(path)
      given   == SelectSeq(tags, LAMBDA t : t # <<>>)
      bits    == (IF due # <<>> THEN <<Calendar, " ">> \o due ELSE <<>>)
                   \o (IF due # <<>> /\ tags # <<>> THEN <<" ">> ELSE <<>>)
                   \o (IF tags # <<>> THEN TagStr(given) ELSE <<>>)
      line    == OpenMark \o task_text
                   \o (IF due # <<>> \/ tags # <<>> THEN <<" ", " ">> \o bits ELSE <<>>)
      content == FallbackReadText(p)
      ended   == IF content # <<>> /\ content[Len(content)] # NL
                 THEN Append(content, NL) ELSE content
  IN  FallbackWrite(cmd, p, ended \o line \o <<NL>>)

\* the lines of task_toggle's loop from line i on; stop is set once a line
\* was changed and a task_text was given
RECURSIVE FallbackToggleFrom(_, _, _, _, _)
FallbackToggleFrom(lines, i, want, task_text, stop) ==
  IF i > Len(lines) THEN lines
  ELSE IF stop
          \/ ~StartsWith(Strip(lines[i]), <<"-", " ", "[">>)
          \/ (task_text # <<>> /\ ~Contains(lines[i], task_text))
       THEN FallbackToggleFrom(lines, i + 1, want, task_text, stop)
  ELSE FallbackToggleFrom(
         [lines EXCEPT ![i] = <<"-", " ", "[", want, "]">> \o AfterFirst(lines[i], "]")],
         i + 1, want, task_text, task_text # <<>>)

FallbackTaskToggle(path, task_state, task_text) ==
  LET cmd     == Cmd("task.toggle", path, <<>>, <<>>, "", <<>>, task_text, <<>>, <<>>,
                     task_state)
      p       == FallbackNotePath(path)
      lines   == SplitLines(fs[p].text)
      want    == IF task_state = "done" THEN "x" ELSE " "
      changed == \E i \in 1..Len(lines) :
                   /\ StartsWith(Strip(lines[i]), <<"-", " ", "[">>)
                   /\ task_text # <<>> => Contains(lines[i], task_text)
  IN  IF ~fs[p].exists THEN Return(cmd, ErrNoNote, p, fs, Mkdir(p))
      ELSE IF ~changed THEN Return(cmd, ErrNoTask, p, fs, Mkdir(p))
      ELSE FallbackWrite(cmd, p,
             JoinLines(FallbackToggleFrom(lines, 1, want, task_text, FALSE)) \o <<NL>>)

----------------------------------------------------------------------------
(* SpecFallback: the commands the endpoint routes, on the fallback adapter *)

FallbackOps == 2

\* paths that pass validation: they end in .md
FallbackPaths == {PathX, PathNested, PathUp, PathSibling}

TaskJ == <<"j">>

FallbackDocs == { NoFile, Text(<<OpenK, LineX, OpenMark \o TaskJ>>), Text(<<LineH, LineX>>) }

InitFallback == \E doc \in FallbackDocs : InitWith(doc)

NextFallback ==
  /\ Len(log) < FallbackOps
  /\ \E path \in FallbackPaths :
       \/ FallbackNoteCreate(path, Title1, Body1)
       \/ FallbackNoteUpdate(path, Body1)
       \/ FallbackNoteAppend(path, Body1, "bottom", <<>>)
       \/ FallbackNoteAppend(path, Body1, "after_heading", Head1)
       \/ \E meta \in TaskMeta : FallbackTaskCreate(path, TaskK, meta[1], meta[2])
       \/ \E task_state \in TaskStates, task_text \in {TaskK, <<>>} :
            FallbackTaskToggle(path, task_state, task_text)
  /\ UNCHANGED reqs

SpecFallback == InitFallback /\ [][NextFallback]_vars

\* C20: on the fallback adapter no call changes a file outside the base
\* directory, a note.create on a document that exists leaves it as it was,
\* and a task.toggle without task_text changes no line.
C20_FallbackKeepsGuarantees ==
  \A i \in 1..Len(log) :
    LET c == log[i].cmd
    IN  /\ \A l \in Locs : PostFs(i)[l] # log[i].pre[l] => IsDescendant(l)
        /\ (c.op = "note.create" /\ log[i].pre[log[i].file].exists)
             => PostFs(i) = log[i].pre
        /\ (c.op = "task.toggle" /\ c.task_text = <<>>) => PostFs(i) = log[i].pre

====
